---------------------------- MODULE Spec2Model ----------------------------
(***************************************************************************)
(* Text-to-sketch service (src/main.py): the rendering core                *)
(* generate_sketch_svg and the two routes that call it.                    *)
(*                                                                         *)
(* Representation.                                                         *)
(*  - A Python str is a sequence of one-character strings.                 *)
(*  - A float coordinate is an integer number of 1/90 pixel (Unit), which  *)
(*    keeps the divisions by 3 (card width) and by 9 (bar width) and the   *)
(*    one-decimal formatting exact; Fmt1 is the "{:.1f}" conversion and    *)
(*    yields tenths of a pixel.                                            *)
(*  - random.Random is a deterministic generator over RngMod states; the   *)
(*    state after a draw is the drawn value, read as the fraction          *)
(*    state / RngMod of [0,1).                                             *)
(*  - hash(str) is a keyed hash whose key (PYTHONHASHSEED, variable        *)
(*    hashsecret) is drawn when the interpreter starts.                    *)
(*  - An svg element is a record [tag, geom, color, text]; one entry of    *)
(*    the list `parts` is a record [prim, args, stroke, fill, svg] holding *)
(*    the call that produced it and the elements of its markup.            *)
(***************************************************************************)
EXTENDS Integers, Sequences, FiniteSets, TLC

VARIABLES
    THEMES,       \* the module-level dict THEMES
    hashsecret,   \* the str-hash key of the running interpreter
    request,      \* the HTTP request being dispatched (route "none": no request)
    response,     \* the last HTTP response (route "none": no response yet)
    frame,        \* the locals of each running call of generate_sketch_svg
    result        \* the value each finished call returned

vars == <<THEMES, hashsecret, request, response, frame, result>>

None == "None"     \* None where a str is expected (fill, stroke)
NoSeed == <<>>     \* seed=None; an int seed n is <<n>>

----------------------------------------------------------------------------
(* Bounds of the model *)

PadLen == 78          \* length of the filler that starts the long prompts
NumSecrets == 2       \* number of distinct hash keys an interpreter can draw
NumWorkers == 2       \* number of concurrent calls of generate_sketch_svg

----------------------------------------------------------------------------
(* Number representation *)

Unit == 90            \* model units per pixel
RngMod == 32768       \* number of generator states
LcgA == 25173
LcgC == 13849
HashSpace == 1048576  \* number of values of hash(str)
HashMul == 131
SeedMod == 65536      \* stands for 2**32 in `abs(hash(prompt)) % (2**32)`

Abs(n) == IF n < 0 THEN -n ELSE n

\* "{v:.1f}": v in units, result in tenths, rounded to nearest
Fmt1(v) == (2 * v + 9) \div 18

----------------------------------------------------------------------------
(* String literals of the source *)

LblHeader == <<"H", "e", "a", "d", "e", "r", " ", "/", " ", "T", "i", "t", "l", "e">>
LblUser == <<"U", "s", "e", "r", " ", "N", "a", "m", "e">>
LblInput == <<"I", "n", "p", "u", "t">>
LblButton == <<"B", "u", "t", "t", "o", "n">>
LblCard == <<"C", "a", "r", "d", " ">>
LblListItem == <<"L", "i", "s", "t", " ", "i", "t", "e", "m", " ">>
LblTitle == <<"T", "i", "t", "l", "e">>
LblPlaceholder == <<"Y", "o", "u", "r", " ", "s", "k", "e", "t", "c", "h", " ", "w", "i", "l", "l", " ", "a", "p", "p", "e", "a", "r", " ", "h", "e", "r", "e">>
LblPrompt == <<"P", "r", "o", "m", "p", "t", ":", " ">>
EntLt == <<"&", "l", "t", ";">>
EntGt == <<"&", "g", "t", ";">>
KwHeader ==
    << <<"h", "e", "a", "d", "e", "r">>,
       <<"t", "i", "t", "l", "e">>,
       <<"n", "a", "v", "b", "a", "r">>,
       <<"h", "e", "r", "o">> >>
KwList ==
    << <<"l", "i", "s", "t">>,
       <<"i", "t", "e", "m", "s">>,
       <<"m", "e", "n", "u">>,
       <<"s", "i", "d", "e", "b", "a", "r">> >>
KwForm ==
    << <<"f", "o", "r", "m">>,
       <<"i", "n", "p", "u", "t">>,
       <<"s", "e", "a", "r", "c", "h">>,
       <<"l", "o", "g", "i", "n">>,
       <<"b", "u", "t", "t", "o", "n">> >>
KwCards ==
    << <<"c", "a", "r", "d", "s">>,
       <<"g", "r", "i", "d">>,
       <<"g", "a", "l", "l", "e", "r", "y">>,
       <<"i", "m", "a", "g", "e", "s">>,
       <<"t", "h", "u", "m", "b", "n", "a", "i", "l", "s">>,
       <<"c", "a", "r", "d">> >>
KwChart ==
    << <<"c", "h", "a", "r", "t">>,
       <<"g", "r", "a", "p", "h">>,
       <<"a", "n", "a", "l", "y", "t", "i", "c", "s">> >>
KwAvatar ==
    << <<"a", "v", "a", "t", "a", "r">>,
       <<"p", "r", "o", "f", "i", "l", "e">>,
       <<"u", "s", "e", "r">> >>
CosT == <<10000, 9397, 7660, 5000, 1736, -1736, -5000, -7660, -9397, -10000, -9397, -7660, -5000, -1736, 1736, 5000, 7660, 9397>>
SinT == <<0, 3420, 6428, 8660, 9848, 9848, 8660, 6428, 3420, 0, -3420, -6428, -8660, -9848, -9848, -8660, -6428, -3420>>
PLogin == <<"a", " ", "l", "o", "g", "i", "n", " ", "f", "o", "r", "m", " ", "w", "i", "t", "h", " ", "a", " ", "s", "e", "a", "r", "c", "h", " ", "b", "u", "t", "t", "o", "n">>
PGallery == <<"p", "h", "o", "t", "o", " ", "g", "a", "l", "l", "e", "r", "y", " ", "g", "r", "i", "d">>
PNone == <<"x", "y", "z", "z", "y", "x", " ", "q", "u", "u", "x">>
PScript == <<"<", "s", "c", "r", "i", "p", "t", ">", "a", "l", "e", "r", "t", "(", "1", ")", "<", "/", "s", "c", "r", "i", "p", "t", ">">>
PTail == <<"<", "N", "A", "V", "B", "A", "R", ">", " ", "S", "a", "l", "e", "s", " ", "C", "H", "A", "R", "T">>
PAll == <<"A", "d", "m", "i", "n", " ", "h", "e", "a", "d", "e", "r", ",", " ", "u", "s", "e", "r", " ", "l", "o", "g", "i", "n", ",", " ", "c", "a", "r", "d", "s", ",", " ", "m", "e", "n", "u", ",", " ", "c", "h", "a", "r", "t">>

UpperChars == <<"A", "B", "C", "D", "E", "F", "G", "H", "I", "J", "K", "L", "M", "N", "O", "P", "Q", "R", "S", "T", "U", "V", "W", "X", "Y", "Z">>
LowerChars == <<"a", "b", "c", "d", "e", "f", "g", "h", "i", "j", "k", "l", "m", "n", "o", "p", "q", "r", "s", "t", "u", "v", "w", "x", "y", "z">>
OtherChars == <<" ", "<", ">", "/", "(", ")", ",", ":", ";", "&", "0", "1", "2", "3", "4", "5", "6", "7", "8", "9">>
DigitChars == <<"0", "1", "2", "3", "4", "5", "6", "7", "8", "9">>

----------------------------------------------------------------------------
(* str operations *)

IndexIn(c, seq) == CHOOSE i \in 1..Len(seq) : seq[i] = c

IsIn(c, seq) == \E i \in 1..Len(seq) : seq[i] = c

\* ord(c), over the characters the model uses
Ord(c) ==
    IF IsIn(c, LowerChars) THEN 96 + IndexIn(c, LowerChars)
    ELSE IF IsIn(c, UpperChars) THEN 64 + IndexIn(c, UpperChars)
    ELSE 200 + IndexIn(c, OtherChars)

\* str.lower()
LowerChar(c) == IF IsIn(c, UpperChars) THEN LowerChars[IndexIn(c, UpperChars)] ELSE c

Lower(s) == [i \in 1..Len(s) |-> LowerChar(s[i])]

\* k in p
Contains(p, k) ==
    \E i \in 1..(Len(p) - Len(k) + 1) : SubSeq(p, i, i + Len(k) - 1) = k

\* any(k in p for k in keywords)
AnyIn(p, keywords) == \E j \in 1..Len(keywords) : Contains(p, keywords[j])

\* s[:n]
Slice(s, n) == SubSeq(s, 1, IF Len(s) < n THEN Len(s) ELSE n)

RECURSIVE ReplaceIn(_, _, _, _, _)
\* s[lo..hi] with every c replaced by rep
ReplaceIn(s, c, rep, lo, hi) ==
    IF lo > hi THEN <<>>
    ELSE IF lo = hi THEN (IF s[lo] = c THEN rep ELSE <<s[lo]>>)
    ELSE ReplaceIn(s, c, rep, lo, (lo + hi) \div 2)
         \o ReplaceIn(s, c, rep, (lo + hi) \div 2 + 1, hi)

\* s.replace(c, rep) for a one-character c
Replace(s, c, rep) == ReplaceIn(s, c, rep, 1, Len(s))

RECURSIVE Str(_)
\* str(n) of a non-negative int, as f"{n}" formats it
Str(n) ==
    IF n < 10 THEN <<DigitChars[n + 1]>>
    ELSE Str(n \div 10) \o <<DigitChars[(n % 10) + 1]>>

\* (a * b) % HashSpace, in steps that stay within 32 bits
MulMod(a, b) ==
    (a * (b % 1024) + ((a * (b \div 1024)) % HashSpace) * 1024) % HashSpace

\* the map h -> (m[1] * h + m[2]) % HashSpace followed by the map n
Compose(m, n) == <<MulMod(m[1], n[1]), (MulMod(m[2], n[1]) + n[2]) % HashSpace>>

RECURSIVE HashMap(_, _, _)
\* the map of the hash state over the characters s[lo..hi], each character c
\* taking h to (h * HashMul + ord(c)) % HashSpace
HashMap(s, lo, hi) ==
    IF lo = hi THEN <<HashMul, Ord(s[lo])>>
    ELSE Compose(HashMap(s, lo, (lo + hi) \div 2), HashMap(s, (lo + hi) \div 2 + 1, hi))

\* hash(s) under the interpreter's key: a signed value, 0 for the empty str
PyHash(secret, s) ==
    IF s = <<>> THEN 0
    ELSE LET m == HashMap(s, 1, Len(s))
             h == (MulMod(secret, m[1]) + m[2]) % HashSpace
         IN  IF h >= HashSpace \div 2 THEN h - HashSpace ELSE h

----------------------------------------------------------------------------
(* random.Random *)

\* random.Random(seed): an int seed is used by absolute value
rng(seed) == Abs(seed) % RngMod

\* rnd.random(): the new state, which is also the value drawn
random(rnd) == (LcgA * rnd + LcgC) % RngMod

\* the draws s -> (m[1] * s + m[2]) % RngMod, made twice
Twice(m) == <<(m[1] * m[1]) % RngMod, (m[1] * m[2] + m[2]) % RngMod>>

\* the same draws followed by one more
Once(m) == <<(LcgA * m[1]) % RngMod, (LcgA * m[2] + LcgC) % RngMod>>

\* n draws as one map, by halving n
RECURSIVE Jump(_)
Jump(n) ==
    IF n = 0 THEN <<1, 0>>
    ELSE IF n % 2 = 1 THEN Once(Jump(n - 1))
    ELSE Twice(Jump(n \div 2))

\* the draws one call of a primitive makes at most: those of rough_circle
MaxDraws == 4 * Len(CosT)

\* JumpTab[n] is the map of n draws
JumpTab == [n \in 1..MaxDraws |-> Jump(n)] \o <<>>

\* the state of the generator after n draws
After(rnd, n) ==
    IF n = 0 THEN rnd ELSE (JumpTab[n][1] * rnd + JumpTab[n][2]) % RngMod

\* rnd.randint(a, b)
randint(rnd, a, b) ==
    LET r == random(rnd)
    IN  [val |-> a + (r * (b - a + 1)) \div RngMod, rnd |-> r]

\* val + (rnd.random() - 0.5) * scale
jitter(rnd, val, scale) ==
    LET r == random(rnd)
    IN  [val |-> val + ((2 * r - RngMod) * scale) \div (2 * RngMod), rnd |-> r]

----------------------------------------------------------------------------
(* Primitive renderers *)

LineJitter == 198     \* scale=2.2, in units
AngleJitter == 2000   \* jitter(rnd, 0, 2), in 1/1000 degree
RadiusJitter == 135   \* jitter(rnd, 0, 1.5), in units
RadianMilliDeg == 57296   \* 1/1000 degrees per radian (math.radians)
TrigScale == 10000    \* CosT and SinT hold cos and sin times TrigScale

El(tag, geom, color, content) ==
    [tag |-> tag, geom |-> geom, color |-> color, text |-> content]

Part(prim, args, stroke, fill, svg) ==
    [prim |-> prim, args |-> args, stroke |-> stroke, fill |-> fill, svg |-> svg]

\* one pass of the loop of rough_line: four jittered coordinates, one draw each
LineSeg(rnd, x1, y1, x2, y2, stroke) ==
    [el  |-> El("path",
                <<Fmt1(jitter(rnd, x1, LineJitter).val),
                  Fmt1(jitter(After(rnd, 1), y1, LineJitter).val),
                  Fmt1(jitter(After(rnd, 2), x2, LineJitter).val),
                  Fmt1(jitter(After(rnd, 3), y2, LineJitter).val)>>,
                stroke, <<>>),
     rnd |-> After(rnd, 4)]

rough_line(rnd, x1, y1, x2, y2, stroke) ==
    [svg |-> <<LineSeg(rnd, x1, y1, x2, y2, stroke).el,
               LineSeg(After(rnd, 4), x1, y1, x2, y2, stroke).el>>,
     rnd |-> After(rnd, 8)]

\* the top, right, bottom and left edges, each a rough_line of 8 draws
rough_rect(rnd, x, y, w, h, stroke, fill) ==
    [svg |-> (IF fill # None
              THEN <<El("rect", <<Fmt1(x), Fmt1(y), Fmt1(w), Fmt1(h)>>, fill, <<>>)>>
              ELSE <<>>)
             \o rough_line(rnd, x, y, x + w, y, stroke).svg
             \o rough_line(After(rnd, 8), x + w, y, x + w, y + h, stroke).svg
             \o rough_line(After(rnd, 16), x + w, y + h, x, y + h, stroke).svg
             \o rough_line(After(rnd, 24), x, y + h, x, y, stroke).svg,
     rnd |-> After(rnd, 32)]

\* cos and sin of the angle 20*(k-1) + ja/1000 degrees, times TrigScale, to
\* first order around the table value
CosAt(k, ja) == CosT[k] - (ja * SinT[k]) \div RadianMilliDeg
SinAt(k, ja) == SinT[k] + (ja * CosT[k]) \div RadianMilliDeg

\* one point of a polyline of rough_circle: the angle takes the first draw,
\* the radius the second
CirclePt(rnd, cx, cy, r, k) ==
    LET ja == jitter(rnd, 0, AngleJitter).val
        rr == r + jitter(After(rnd, 1), 0, RadiusJitter).val
    IN  <<Fmt1(cx + (rr * CosAt(k, ja)) \div TrigScale),
          Fmt1(cy + (rr * SinAt(k, ja)) \div TrigScale)>>

\* the points a = 0, 20, .. , 340 of one polyline of rough_circle from point
\* lo to point hi, two draws each, as the list x1, y1, x2, y2, ..
RECURSIVE CirclePtsIn(_, _, _, _, _, _)
CirclePtsIn(rnd, cx, cy, r, lo, hi) ==
    IF lo = hi THEN CirclePt(After(rnd, 2 * (lo - 1)), cx, cy, r, lo)
    ELSE CirclePtsIn(rnd, cx, cy, r, lo, (lo + hi) \div 2)
         \o CirclePtsIn(rnd, cx, cy, r, (lo + hi) \div 2 + 1, hi)

CirclePts(rnd, cx, cy, r) == CirclePtsIn(rnd, cx, cy, r, 1, Len(CosT))

rough_circle(rnd, cx, cy, r, stroke, fill) ==
    [svg |-> (IF fill # None
              THEN <<El("circle", <<Fmt1(cx), Fmt1(cy), Fmt1(r)>>, fill, <<>>)>>
              ELSE <<>>)
             \o <<El("polyline", CirclePts(rnd, cx, cy, r), stroke, <<>>),
                  El("polyline", CirclePts(After(rnd, 2 * Len(CosT)), cx, cy, r),
                     stroke, <<>>)>>,
     rnd |-> After(rnd, 4 * Len(CosT))]

\* a text element that escapes < only
text_elOnlyLt(x, y, content, color) ==
    El("text", <<Fmt1(x), Fmt1(y)>>, color, Replace(content, "<", EntLt))

text_el(x, y, content, color) ==
    LET safe == Replace(Replace(content, "<", EntLt), ">", EntGt)
    IN  El("text", <<Fmt1(x), Fmt1(y)>>, color, safe)

----------------------------------------------------------------------------
(* THEMES *)

ThemeTable ==
    [slate |-> [bg |-> "#0f172a", ink |-> "#93c5fd", accent |-> "#60a5fa"],
     sand  |-> [bg |-> "#f1f5f9", ink |-> "#0f172a", accent |-> "#64748b"]]

\* a lookup whose default is the other palette
ThemesGetSand(T, theme) == IF theme \in DOMAIN T THEN T[theme] ELSE T["sand"]

\* THEMES.get(theme, THEMES["slate"])
ThemesGet(T, theme) == IF theme \in DOMAIN T THEN T[theme] ELSE T["slate"]

----------------------------------------------------------------------------
(* generate_sketch_svg *)

margin == 24
CaptionLen == 80

\* seed or abs(hash(prompt)) % (2**32)
SeedArg(secret, prompt, seed) ==
    IF seed # NoSeed /\ seed[1] # 0 THEN seed[1]
    ELSE Abs(PyHash(secret, prompt)) % SeedMod

\* parts.append(rough_rect(rnd, x, y, w, h, stroke, fill))
AppendRect(f, x, y, w, h, stroke, fill) ==
    LET rough == rough_rect(f.rnd, x, y, w, h, stroke, fill)
    IN  [f EXCEPT !.rnd = rough.rnd,
                  !.parts = Append(@, Part("rough_rect", <<x, y, w, h>>, stroke, fill, rough.svg))]

\* parts.append(rough_circle(rnd, cx, cy, r, stroke, fill))
AppendCircle(f, cx, cy, r, stroke, fill) ==
    LET rough == rough_circle(f.rnd, cx, cy, r, stroke, fill)
    IN  [f EXCEPT !.rnd = rough.rnd,
                  !.parts = Append(@, Part("rough_circle", <<cx, cy, r>>, stroke, fill, rough.svg))]

\* parts.append(rough_line(rnd, x1, y1, x2, y2, stroke))
AppendLine(f, x1, y1, x2, y2, stroke) ==
    LET rough == rough_line(f.rnd, x1, y1, x2, y2, stroke)
    IN  [f EXCEPT !.rnd = rough.rnd,
                  !.parts = Append(@, Part("rough_line", <<x1, y1, x2, y2>>, stroke, None, rough.svg))]

\* parts.append(text_el(x, y, content, color))
AppendText(f, x, y, content, color) ==
    [f EXCEPT !.parts = Append(@, Part("text_el", <<x, y>>, color, None,
                                       <<text_el(x, y, content, color)>>))]

\* lines 157-179: the generator, the palette, the flags, the base svg
Begin(T, secret, prompt, width, height, seed, theme) ==
    LET palette == ThemesGet(T, theme)
        p == Lower(prompt)
        s == SeedArg(secret, prompt, seed)
    IN  [prompt |-> prompt, width |-> width, height |-> height, seed |-> seed,
         theme |-> theme,
         rngseed |-> s,
         rnd |-> rng(s),
         ink |-> palette.ink,
         accent |-> palette.accent,
         wants_header |-> AnyIn(p, KwHeader),
         wants_list   |-> AnyIn(p, KwList),
         wants_form   |-> AnyIn(p, KwForm),
         wants_cards  |-> AnyIn(p, KwCards),
         wants_chart  |-> AnyIn(p, KwChart),
         wants_avatar |-> AnyIn(p, KwAvatar),
         parts |-> << Part("literal", <<>>, None, None,
                           <<El("svg", <<width, height>>, None, <<>>)>>),
                      Part("literal", <<>>, None, None,
                           <<El("background", <<>>, palette.bg, <<>>)>>) >>,
         y |-> 24,
         inner_w |-> width - margin * 2,
         r |-> 0, c |-> 0, i |-> 0,
         pc |-> "header"]

\* a header block that advances the cursor by its height only
HeaderBlockShort(f) ==
    IF ~f.wants_header THEN [f EXCEPT !.pc = "avatar"]
    ELSE [AppendText(AppendRect(f, margin * Unit, f.y * Unit, f.inner_w * Unit, 60 * Unit,
                                f.ink, f.accent),
                     (margin + 16) * Unit, (f.y + 36) * Unit, LblHeader, f.ink)
            EXCEPT !.y = @ + 60, !.pc = "avatar"]

\* lines 182-185
HeaderBlock(f) ==
    IF ~f.wants_header THEN [f EXCEPT !.pc = "avatar"]
    ELSE [AppendText(AppendRect(f, margin * Unit, f.y * Unit, f.inner_w * Unit, 60 * Unit,
                                f.ink, f.accent),
                     (margin + 16) * Unit, (f.y + 36) * Unit, LblHeader, f.ink)
            EXCEPT !.y = @ + 80, !.pc = "avatar"]

\* lines 188-191
AvatarBlock(f) ==
    IF ~f.wants_avatar THEN [f EXCEPT !.pc = "form"]
    ELSE [AppendText(AppendCircle(f, (margin + 32) * Unit, (f.y + 32) * Unit, 24 * Unit,
                                  f.ink, f.accent),
                     (margin + 72) * Unit, (f.y + 38) * Unit, LblUser, f.ink)
            EXCEPT !.y = @ + 72, !.pc = "form"]

\* lines 195-196: the outer rectangle and its label
FormOuter(f) ==
    AppendText(AppendRect(f, margin * Unit, f.y * Unit, f.inner_w * Unit, 120 * Unit,
                          f.ink, f.accent),
               (margin + 16) * Unit, (f.y + 28) * Unit, LblInput, f.ink)

\* lines 197-198: the text field and the label of the button
FormField(f) ==
    AppendText(AppendRect(f, (margin + 12) * Unit, (f.y + 40) * Unit,
                          (f.inner_w - 24) * Unit, 28 * Unit, f.ink, None),
               (margin + 16) * Unit, (f.y + 80) * Unit, LblButton, f.ink)

\* lines 194-200
FormBlock(f) ==
    IF ~f.wants_form THEN [f EXCEPT !.pc = "cards"]
    ELSE [AppendRect(FormField(FormOuter(f)), (margin + 12) * Unit, (f.y + 90) * Unit,
                     120 * Unit, 28 * Unit, f.ink, f.accent)
            EXCEPT !.y = @ + 140, !.pc = "cards"]

cols == 3
gap == 14
CardHeight == 100
CardRows == 2

\* cw = (inner_w - gap * (cols - 1)) / cols
CardWidth(f) == ((f.inner_w - gap * (cols - 1)) * Unit) \div cols

\* x = margin + c * (cw + gap)
CardX(f, c) == margin * Unit + c * (CardWidth(f) + gap * Unit)

RECURSIVE CardCellsColumnMajor(_)
\* cards numbered down the columns instead of along the rows
CardCellsColumnMajor(f) ==
    IF f.c >= cols THEN f
    ELSE CardCellsColumnMajor(
             [AppendText(AppendRect(f, CardX(f, f.c), f.y * Unit, CardWidth(f),
                                    CardHeight * Unit, f.ink, None),
                         CardX(f, f.c) + 10 * Unit, (f.y + 24) * Unit,
                         LblCard \o Str(f.c * CardRows + f.r + 1), f.ink)
                EXCEPT !.c = @ + 1])

RECURSIVE CardCells(_)
\* lines 209-212: for c in range(cols), from column f.c on
CardCells(f) ==
    IF f.c >= cols THEN f
    ELSE CardCells(
             [AppendText(AppendRect(f, CardX(f, f.c), f.y * Unit, CardWidth(f),
                                    CardHeight * Unit, f.ink, None),
                         CardX(f, f.c) + 10 * Unit, (f.y + 24) * Unit,
                         LblCard \o Str(f.r * cols + f.c + 1), f.ink)
                EXCEPT !.c = @ + 1])

RECURSIVE CardRowsFrom(_)
\* lines 208-213: for r in range(2), from row f.r on
CardRowsFrom(f) ==
    IF f.r >= CardRows THEN f
    ELSE CardRowsFrom([CardCells([f EXCEPT !.c = 0])
                          EXCEPT !.y = @ + CardHeight + gap, !.r = @ + 1])

\* lines 203-214
CardsBlock(f) ==
    IF ~f.wants_cards THEN [f EXCEPT !.pc = "list"]
    ELSE [CardRowsFrom([f EXCEPT !.r = 0]) EXCEPT !.y = @ + 8, !.pc = "list"]

lh == 28
ListRows == 5

RECURSIVE ListItems(_)
\* lines 220-222: for i in range(5), from item f.i on
ListItems(f) ==
    IF f.i >= ListRows THEN f
    ELSE ListItems(
             [AppendLine(AppendText(f, (margin + 16) * Unit, (f.y + 24 + f.i * lh) * Unit,
                                    LblListItem \o Str(f.i + 1), f.ink),
                         (margin + 10) * Unit, (f.y + 30 + f.i * lh) * Unit,
                         (margin + f.inner_w - 10) * Unit, (f.y + 30 + f.i * lh) * Unit,
                         f.ink)
                EXCEPT !.i = @ + 1])

\* lines 217-223
ListBlock(f) ==
    IF ~f.wants_list THEN [f EXCEPT !.pc = "chart"]
    ELSE [ListItems([AppendRect(f, margin * Unit, f.y * Unit, f.inner_w * Unit,
                                (lh * 5 + 20) * Unit, f.ink, None) EXCEPT !.i = 0])
            EXCEPT !.y = @ + lh * 5 + 40, !.pc = "chart"]

ChartHeight == 160
bars == 6
BarMin == 40
\* an upper bound that leaves no room above the tallest bar
BarMaxTall == ChartHeight - 10

BarMax == ChartHeight - 30

\* bw = inner_w / (bars * 1.5)
BarWidth(f) == (f.inner_w * Unit * 2) \div (bars * 3)

\* lines 233-236: bar f.i of height bar_h, drawn after the draw of bar_h
Bar(f, bar_h) ==
    AppendRect([f EXCEPT !.rnd = After(@, 1)],
               (margin + 20) * Unit + f.i * ((BarWidth(f) * 3) \div 2),
               (f.y + ChartHeight - bar_h - 10) * Unit,
               BarWidth(f), bar_h * Unit, f.accent, f.accent)

RECURSIVE Bars(_)
\* lines 232-236: for i in range(bars), from bar f.i on
Bars(f) ==
    IF f.i >= bars THEN f
    ELSE Bars([Bar(f, randint(f.rnd, BarMin, BarMax).val) EXCEPT !.i = @ + 1])

\* lines 226-237
ChartBlock(f) ==
    IF ~f.wants_chart THEN [f EXCEPT !.pc = "fallback"]
    ELSE [Bars([AppendRect(f, margin * Unit, f.y * Unit, f.inner_w * Unit,
                           ChartHeight * Unit, f.ink, None) EXCEPT !.i = 0])
            EXCEPT !.y = @ + ChartHeight + 20, !.pc = "fallback"]

\* a test that forgets the avatar flag
NothingWantedButAvatar(f) ==
    ~(f.wants_header \/ f.wants_list \/ f.wants_form \/ f.wants_cards \/ f.wants_chart)

\* line 240
NothingWanted(f) ==
    ~(f.wants_header \/ f.wants_list \/ f.wants_form \/ f.wants_cards
      \/ f.wants_chart \/ f.wants_avatar)

\* lines 241-243: the title block and the advance of the cursor
FallbackTitle(f) ==
    [AppendText(AppendRect(f, margin * Unit, f.y * Unit, f.inner_w * Unit, 60 * Unit,
                           f.ink, f.accent),
                (margin + 16) * Unit, (f.y + 36) * Unit, LblTitle, f.ink)
       EXCEPT !.y = @ + 80]

\* lines 244-245: the placeholder
FallbackPlaceholder(f) ==
    AppendText(AppendRect(f, margin * Unit, f.y * Unit, f.inner_w * Unit, 160 * Unit,
                          f.ink, None),
               (margin + 16) * Unit, (f.y + 40) * Unit, LblPlaceholder, f.ink)

\* lines 240-245
FallbackBlock(f) ==
    IF ~NothingWanted(f) THEN [f EXCEPT !.pc = "caption"]
    ELSE [FallbackPlaceholder(FallbackTitle(f)) EXCEPT !.pc = "caption"]

\* lines 247-249
CaptionBlock(f) ==
    [AppendText(f, margin * Unit, (f.height - 12) * Unit,
                LblPrompt \o Slice(f.prompt, CaptionLen), f.ink)
       EXCEPT !.parts = Append(@, Part("literal", <<>>, None, None,
                                       <<El("/svg", <<>>, None, <<>>)>>)),
              !.pc = "return"]

RECURSIVE JoinIn(_, _, _)
JoinIn(parts, lo, hi) ==
    IF lo > hi THEN <<>>
    ELSE IF lo = hi THEN parts[lo].svg
    ELSE JoinIn(parts, lo, (lo + hi) \div 2) \o JoinIn(parts, (lo + hi) \div 2 + 1, hi)

\* "\n".join(parts): the elements of the document, in order
Join(parts) == JoinIn(parts, 1, Len(parts))

\* the block at the position of the call
Block(f) ==
    CASE f.pc = "header"   -> HeaderBlock(f)
      [] f.pc = "avatar"   -> AvatarBlock(f)
      [] f.pc = "form"     -> FormBlock(f)
      [] f.pc = "cards"    -> CardsBlock(f)
      [] f.pc = "list"     -> ListBlock(f)
      [] f.pc = "chart"    -> ChartBlock(f)
      [] f.pc = "fallback" -> FallbackBlock(f)
      [] f.pc = "caption"  -> CaptionBlock(f)

RECURSIVE Run(_)
\* the blocks in program order, from the position of the call to its return
Run(f) == IF f.pc = "return" THEN f ELSE Run(Block(f))

\* the locals of a call of generate_sketch_svg when it reaches its return
Locals(T, secret, prompt, width, height, seed, theme) ==
    Run(Begin(T, secret, prompt, width, height, seed, theme))

generate_sketch_svg(T, secret, prompt, width, height, seed, theme) ==
    Join(Locals(T, secret, prompt, width, height, seed, theme).parts)

----------------------------------------------------------------------------
(* Inputs *)

FlagNames == {"header", "avatar", "form", "cards", "list", "chart"}

\* n filler characters
Pad(n) == [i \in 1..n |-> "z"]

\* a prompt that names exactly the concepts of S, one keyword each
ComboPrompt(S) ==
    (IF "header" \in S THEN KwHeader[1] \o <<" ">> ELSE <<>>)
    \o (IF "avatar" \in S THEN KwAvatar[1] \o <<" ">> ELSE <<>>)
    \o (IF "form" \in S THEN KwForm[1] \o <<" ">> ELSE <<>>)
    \o (IF "cards" \in S THEN KwCards[1] \o <<" ">> ELSE <<>>)
    \o (IF "list" \in S THEN KwList[1] \o <<" ">> ELSE <<>>)
    \o (IF "chart" \in S THEN KwChart[1] ELSE <<>>)

LongPrompt == Pad(PadLen) \o PTail

EdgePrompts == {<<>>, PNone, PLogin, PGallery, PScript, PAll, LongPrompt}

Widths == {800, 40}
Heights == {500}
Seeds == {NoSeed, <<0>>, <<7>>, <<-7>>}
ThemeNames == {"slate", "sand", "unknown_xyz"}
Secrets == 1..NumSecrets
Routes == {"POST /api/sketch", "GET /api/sketch.svg"}
Workers == 1..NumWorkers

\* every combination of the six flags at the default size, and the edge
\* prompts under every size, seed and theme
Args ==
    [prompt : {ComboPrompt(S) : S \in SUBSET FlagNames}, width : {800}, height : {500},
     seed : {NoSeed, <<7>>}, theme : {"slate"}]
    \cup [prompt : EdgePrompts, width : Widths, height : Heights, seed : Seeds,
          theme : ThemeNames]

\* the calls the concurrent specification makes
ConcArgs ==
    {[prompt |-> ComboPrompt({"avatar", "chart"}), width |-> 800, height |-> 500,
      seed |-> <<7>>, theme |-> "slate"],
     [prompt |-> PNone, width |-> 800, height |-> 500, seed |-> NoSeed, theme |-> "sand"]}

NoRequest == [route |-> "none"]
NoResponse == [route |-> "none"]
IdleFrame == [pc |-> "idle"]
NoResult == [done |-> FALSE]

----------------------------------------------------------------------------
(* Spec: requests served one at a time by a process that may be restarted *)

Init ==
    /\ THEMES = ThemeTable
    /\ hashsecret \in Secrets
    /\ request = NoRequest
    /\ response = NoResponse
    /\ frame = [w \in Workers |-> IdleFrame]
    /\ result = [w \in Workers |-> NoResult]

\* a client sends a request
Receive ==
    /\ request.route = "none"
    /\ response.route = "none"
    /\ \E r \in Routes, a \in Args :
          request' = [route |-> r, args |-> a]
    /\ UNCHANGED <<THEMES, hashsecret, response, frame, result>>

\* the client that holds the last response sends the same parameters again,
\* to either route
Repeat ==
    /\ request.route = "none"
    /\ response.route # "none"
    /\ \E r \in Routes :
          request' = [route |-> r, args |-> response.args]
    /\ UNCHANGED <<THEMES, hashsecret, response, frame, result>>

\* the client drops the response it holds
Discard ==
    /\ request.route = "none"
    /\ response.route # "none"
    /\ response' = NoResponse
    /\ UNCHANGED <<THEMES, hashsecret, request, frame, result>>

\* the response of a route: `call` keeps the locals the call of
\* generate_sketch_svg had at its return, svg is the value it returned
ResponseOf(route, media, args, secret, call) ==
    [route |-> route, media |-> media, args |-> args, secret |-> secret,
     call |-> call, svg |-> Join(call.parts)]

\* the handler of a route: its call of generate_sketch_svg and its response
Respond(media) ==
    /\ response' = ResponseOf(request.route, media, request.args, hashsecret,
                              Locals(THEMES, hashsecret, request.args.prompt,
                                     request.args.width, request.args.height,
                                     request.args.seed, request.args.theme))
    /\ request' = NoRequest
    /\ UNCHANGED <<THEMES, hashsecret, frame, result>>

\* POST /api/sketch
make_sketch ==
    /\ request.route = "POST /api/sketch"
    /\ Respond("application/json")

\* GET /api/sketch.svg
make_sketch_svg ==
    /\ request.route = "GET /api/sketch.svg"
    /\ Respond("image/svg+xml")

\* the process exits and is started again: the module is executed anew and
\* the interpreter draws a hash key
Restart ==
    /\ request.route = "none"
    /\ hashsecret' \in Secrets
    /\ THEMES' = ThemeTable
    /\ UNCHANGED <<request, response, frame, result>>

Next == Receive \/ Repeat \/ Discard \/ make_sketch \/ make_sketch_svg \/ Restart

Spec == Init /\ [][Next]_vars

----------------------------------------------------------------------------
(* SpecConc: calls of generate_sketch_svg running concurrently in one       *)
(* process, interleaved block by block                                      *)

\* a generator shared by the calls instead of one per call
FrameSharedRng(w) ==
    IF frame[1].pc # "idle" THEN [frame[w] EXCEPT !.rnd = frame[1].rnd] ELSE frame[w]

\* the locals the call of worker w works on
Frame(w) == frame[w]

Call(w) ==
    /\ frame[w].pc = "idle"
    /\ \E a \in ConcArgs :
          /\ frame' = [frame EXCEPT ![w] =
                 Begin(THEMES, hashsecret, a.prompt, a.width, a.height, a.seed, a.theme)]
          /\ result' = [result EXCEPT ![w] = NoResult]
    /\ UNCHANGED <<THEMES, hashsecret, request, response>>

Step(w, at, next) ==
    /\ frame[w].pc = at
    /\ frame' = [frame EXCEPT ![w] = next]
    /\ UNCHANGED <<THEMES, hashsecret, request, response, result>>

StepHeader(w) == Step(w, "header", HeaderBlock(Frame(w)))
StepAvatar(w) == Step(w, "avatar", AvatarBlock(Frame(w)))
StepForm(w) == Step(w, "form", FormBlock(Frame(w)))
StepCards(w) == Step(w, "cards", CardsBlock(Frame(w)))
StepList(w) == Step(w, "list", ListBlock(Frame(w)))
StepChart(w) == Step(w, "chart", ChartBlock(Frame(w)))
StepFallback(w) == Step(w, "fallback", FallbackBlock(Frame(w)))
StepCaption(w) == Step(w, "caption", CaptionBlock(Frame(w)))

\* line 250
Return(w) ==
    /\ frame[w].pc = "return"
    /\ result' = [result EXCEPT ![w] =
           [done |-> TRUE,
            args |-> [prompt |-> frame[w].prompt, width |-> frame[w].width,
                      height |-> frame[w].height, seed |-> frame[w].seed,
                      theme |-> frame[w].theme],
            peers |-> {v \in Workers : frame[v].pc # "idle"} \ {w},
            svg |-> Join(Frame(w).parts)]]
    /\ frame' = [frame EXCEPT ![w] = IdleFrame]
    /\ UNCHANGED <<THEMES, hashsecret, request, response>>

NextConc ==
    \E w \in Workers :
        \/ Call(w)
        \/ StepHeader(w)
        \/ StepAvatar(w)
        \/ StepForm(w)
        \/ StepCards(w)
        \/ StepList(w)
        \/ StepChart(w)
        \/ StepFallback(w)
        \/ StepCaption(w)
        \/ Return(w)

SpecConc == Init /\ [][NextConc]_vars

----------------------------------------------------------------------------
(* Properties *)

Served == response.route # "none"

SameParameters == response'.args = response.args

\* C1: two calls with the same prompt, width, height, theme and a seed that
\* is not None return the same document, whichever routes make the calls.
C1_Determinism ==
    [][(Served /\ Served' /\ SameParameters /\ response.args.seed # NoSeed)
          => response'.svg = response.svg]_vars

\* C2: two calls with the same prompt, width, height and theme and seed=None
\* return the same document, also when the process was restarted in between.
C2_SeedOmissionDeterminism ==
    [][(Served /\ Served' /\ SameParameters /\ response.args.seed = NoSeed)
          => response'.svg = response.svg]_vars

\* C3: a theme that is not a key of THEMES gives the document of theme
\* "slate", drawn with the slate colours.
C3_ThemeFallback ==
    (Served /\ response.args.theme \notin {"slate", "sand"}) =>
        LET a == response.args
        IN  /\ response.svg = generate_sketch_svg(ThemeTable, response.secret, a.prompt,
                                                  a.width, a.height, a.seed, "slate")
            /\ response.svg[2].color = "#0f172a"
            /\ response.call.ink = "#93c5fd"
            /\ response.call.accent = "#60a5fa"

C3_Witness ==
    /\ Served
    /\ response.args.theme = "unknown_xyz"
    /\ response.args.prompt = PAll
    /\ Len(response.svg) > 3

RECURSIVE EscapedFrom(_, _, _)
\* the characters i..last of p with < and > written as entities
EscapedFrom(p, i, last) ==
    IF i > last THEN <<>>
    ELSE IF i = last THEN (IF p[i] = "<" THEN <<"&", "l", "t", ";">>
                           ELSE IF p[i] = ">" THEN <<"&", "g", "t", ";">>
                           ELSE <<p[i]>>)
    ELSE EscapedFrom(p, i, (i + last) \div 2) \o EscapedFrom(p, (i + last) \div 2 + 1, last)

\* C4: the element before the closing tag is the caption, "Prompt: " and the
\* first 80 characters of the prompt with < and > escaped, and no text of the
\* document holds a raw < or >.
C4_Caption ==
    Served =>
        LET svg == response.svg
            p == response.args.prompt
            n == Len(svg)
            last == IF Len(p) < 80 THEN Len(p) ELSE 80
        IN  /\ svg[n].tag = "/svg"
            /\ svg[n - 1].tag = "text"
            /\ svg[n - 1].text = <<"P", "r", "o", "m", "p", "t", ":", " ">>
                                   \o EscapedFrom(p, 1, last)
            /\ \A i \in 1..n : \A j \in 1..Len(svg[i].text) :
                   svg[i].text[j] \notin {"<", ">"}

C4_Witness ==
    /\ Served
    /\ Len(response.args.prompt) > 80
    /\ \E i \in 1..80 : response.args.prompt[i] = "<"
    /\ \E i \in 81..Len(response.args.prompt) : response.args.prompt[i] = ">"
    /\ response.svg[Len(response.svg) - 1].tag = "text"

IsText(part, s) == part.prim = "text_el" /\ part.svg[1].text = s

\* the four entries of the fallback block start at entry i of P
FallbackAt(P, i) ==
    /\ i + 3 <= Len(P)
    /\ P[i].prim = "rough_rect" /\ P[i].fill # None /\ P[i].args[4] = 60 * Unit
    /\ IsText(P[i + 1], LblTitle)
    /\ P[i + 2].prim = "rough_rect" /\ P[i + 2].fill = None
    /\ P[i + 2].args[4] = 160 * Unit
    /\ IsText(P[i + 3], LblPlaceholder)

HasFallback(P) == \E i \in 1..Len(P) : FallbackAt(P, i)

AllFlagsFalse(L) ==
    /\ ~L.wants_header /\ ~L.wants_list /\ ~L.wants_form
    /\ ~L.wants_cards /\ ~L.wants_chart /\ ~L.wants_avatar

NoKeyword(prompt) ==
    \A K \in {KwHeader, KwList, KwForm, KwCards, KwChart, KwAvatar} :
        \A j \in 1..Len(K) : ~Contains(Lower(prompt), K[j])

DocContains(svg, s) == \E i \in 1..Len(svg) : Contains(svg[i].text, s)

\* C5: the fallback block is emitted exactly when the six flags are false,
\* and the document of a prompt without keyword holds the placeholder text
\* and none of the labels of the header, avatar, list and cards blocks.
C5_Fallback ==
    Served =>
        /\ HasFallback(response.call.parts) <=> AllFlagsFalse(response.call)
        /\ NoKeyword(response.args.prompt) =>
              /\ DocContains(response.svg, LblPlaceholder)
              /\ ~DocContains(response.svg, LblHeader)
              /\ ~DocContains(response.svg, LblUser)
              /\ ~DocContains(response.svg, <<"L", "i", "s", "t", " ", "i", "t", "e", "m">>)
              /\ ~DocContains(response.svg, LblCard)

C5_Witness ==
    /\ Served
    /\ response.args.prompt = PNone
    /\ NoKeyword(response.args.prompt)
    /\ HasFallback(response.call.parts)

CardLabel(n) == <<"C", "a", "r", "d", " ", DigitChars[n + 1]>>

\* the cards block starts at entry k of P: six unfilled rectangles, each
\* followed by its label, laid out row-major in 3 columns and 2 rows
CardsGridAt(P, k) ==
    /\ k + 11 <= Len(P)
    /\ \A n \in 1..6 :
          LET rect == P[k + 2 * (n - 1)]
              first == P[k]
              col == (n - 1) % 3
              row == (n - 1) \div 3
          IN  /\ rect.prim = "rough_rect" /\ rect.fill = None
              /\ IsText(P[k + 2 * (n - 1) + 1], CardLabel(n))
              /\ rect.args[3] = first.args[3]
              /\ rect.args[4] = 100 * Unit
              /\ rect.args[1] = first.args[1] + col * (first.args[3] + 14 * Unit)
              /\ rect.args[2] = first.args[2] + row * 114 * Unit

IsCardLabel(part) == part.prim = "text_el" /\ \E n \in 1..9 : part.svg[1].text = CardLabel(n)

\* C6: when the cards flag is true the cards block is six unfilled
\* rectangles with labels Card 1 .. Card 6, 3 per row over 2 rows, the second
\* row 114 below the first.
C6_CardsGrid ==
    (Served /\ response.call.wants_cards) =>
        LET P == response.call.parts
        IN  /\ \E k \in 1..Len(P) : CardsGridAt(P, k)
            /\ Cardinality({i \in 1..Len(P) : IsCardLabel(P[i])}) = 6

C6_Witness ==
    /\ Served
    /\ response.args.prompt = PGallery
    /\ response.call.wants_cards
    /\ \E k \in 1..Len(response.call.parts) : CardsGridAt(response.call.parts, k)

\* the document each call returns when it runs alone, under each hash key
RunAlone ==
    [a \in ConcArgs, s \in Secrets |->
        generate_sketch_svg(ThemeTable, s, a.prompt, a.width, a.height, a.seed, a.theme)]

\* C7: whatever the interleaving, a call returns the document it returns
\* when it runs alone, and THEMES keeps its initial value.
C7_NoInterference ==
    /\ THEMES = ThemeTable
    /\ \A w \in Workers :
          result[w].done => result[w].svg = RunAlone[result[w].args, hashsecret]

C7_Witness ==
    \E w \in Workers : result[w].done /\ result[w].peers # {}

\* the advances of the header, avatar, form, cards, list and chart blocks
BlockAdvance == <<80, 72, 140, 236, 180, 180>>

Wanted(L, k) ==
    CASE k = 1 -> L.wants_header
      [] k = 2 -> L.wants_avatar
      [] k = 3 -> L.wants_form
      [] k = 4 -> L.wants_cards
      [] k = 5 -> L.wants_list
      [] k = 6 -> L.wants_chart

\* the first bar of the chart follows its outer rectangle
IsChartOuter(L, i) ==
    LET P == L.parts
    IN  /\ i + 1 <= Len(P)
        /\ P[i].prim = "rough_rect" /\ P[i].fill = None /\ P[i].stroke = L.ink
        /\ P[i].args[4] = 160 * Unit
        /\ P[i + 1].prim = "rough_rect" /\ P[i + 1].fill # None
        /\ P[i + 1].stroke = P[i + 1].fill

\* the entries that mark block k (1 header, 2 avatar, 3 form, 4 cards, 5 list, 6 chart)
Markers(L, k) ==
    LET P == L.parts
    IN  CASE k = 1 -> {i \in 1..Len(P) : IsText(P[i], LblHeader)}
          [] k = 2 -> {i \in 1..Len(P) : P[i].prim = "rough_circle"}
          [] k = 3 -> {i \in 1..Len(P) : IsText(P[i], LblInput)}
          [] k = 4 -> {i \in 1..Len(P) : IsText(P[i], CardLabel(1))}
          [] k = 5 -> {i \in 1..Len(P) : IsText(P[i], LblListItem \o <<"1">>)}
          [] k = 6 -> {i \in 1..Len(P) : IsChartOuter(L, i)}

\* the top y of block k, in units, read from its marker at entry i
TopAt(L, k, i) ==
    LET y == L.parts[i].args[2]
    IN  CASE k = 1 -> y - 36 * Unit
          [] k = 2 -> y - 32 * Unit
          [] k = 3 -> y - 28 * Unit
          [] k = 4 -> y - 24 * Unit
          [] k = 5 -> y - 24 * Unit
          [] k = 6 -> y

RECURSIVE AdvanceBefore(_, _)
\* the sum of the advances of the wanted blocks before block k
AdvanceBefore(L, k) ==
    IF k <= 1 THEN 0
    ELSE AdvanceBefore(L, k - 1) + (IF Wanted(L, k - 1) THEN BlockAdvance[k - 1] ELSE 0)

\* C8: exactly the wanted blocks are emitted, in the order header, avatar,
\* form, cards, list, chart, each with its top at 24 plus the advances of the
\* wanted blocks before it, and the cursor ends at 24 plus all advances.
C8_LayoutOrder ==
    Served =>
        LET L == response.call
        IN  /\ \A k \in 1..6 :
                  /\ Cardinality(Markers(L, k)) = (IF Wanted(L, k) THEN 1 ELSE 0)
                  /\ \A i \in Markers(L, k) :
                        TopAt(L, k, i) = (24 + AdvanceBefore(L, k)) * Unit
            /\ \A j, k \in 1..6 :
                  j < k => \A a \in Markers(L, j), b \in Markers(L, k) :
                              a < b /\ TopAt(L, j, a) <= TopAt(L, k, b)
            /\ L.y = 24 + AdvanceBefore(L, 7) + (IF AllFlagsFalse(L) THEN 80 ELSE 0)
            /\ \A k \in 1..6 : \A i \in Markers(L, k) : TopAt(L, k, i) <= L.y * Unit

C8_Witness ==
    /\ Served
    /\ \A k \in 1..6 : Wanted(response.call, k)
    /\ \A k \in 1..6 : Markers(response.call, k) # {}
    /\ response.call.y = 24 + 80 + 72 + 140 + 236 + 180 + 180

\* C9: a seed that is not None, 0 and negative values included, is the value
\* the generator is seeded with.
C9_ExplicitSeedHonoured ==
    (Served /\ response.args.seed # NoSeed) =>
        response.call.rngseed = response.args.seed[1]

IsBar(L, part) ==
    part.prim = "rough_rect" /\ part.stroke = L.accent /\ part.fill = L.accent

\* C10: when the chart flag is true the outer rectangle of height 160 is
\* followed by exactly 6 bars in the accent colour, each of an integer height
\* in 40..130, its bottom 10 above the bottom of the chart and its top at
\* least 20 below the top of the chart.
C10_ChartBars ==
    (Served /\ response.call.wants_chart) =>
        LET L == response.call
            P == L.parts
        IN  /\ L.accent = (IF response.args.theme = "sand" THEN "#64748b" ELSE "#60a5fa")
            /\ \E k \in 1..Len(P) :
                  /\ IsChartOuter(L, k)
                  /\ k + 7 <= Len(P)
                  /\ ~IsBar(L, P[k + 7])
                  /\ \A i \in 1..6 :
                        LET bar == P[k + i]
                        IN  /\ IsBar(L, bar)
                            /\ bar.args[4] % Unit = 0
                            /\ bar.args[4] \div Unit \in 40..130
                            /\ bar.args[2] + bar.args[4] = P[k].args[2] + 150 * Unit
                            /\ bar.args[2] >= P[k].args[2] + 20 * Unit

C10_Witness ==
    /\ Served
    /\ response.call.wants_chart
    /\ \E k \in 1..Len(response.call.parts) :
          /\ IsChartOuter(response.call, k)
          /\ k + 6 <= Len(response.call.parts)
          /\ \E i, j \in 1..6 :
                response.call.parts[k + i].args[4] # response.call.parts[k + j].args[4]

============================================================================
